---- MODULE Spec2Model ----
(***************************************************************************)
(* The resizing chained hash table symtablehash.c (SymTable ADT).          *)
(*                                                                         *)
(* Memory is modelled as a heap of SymTableNode records indexed by         *)
(* address; a chain is the psNextNode linkage of the heap.  The table      *)
(* structure is the record oSymTable.  Every public function is an         *)
(* operator from (table, heap, arguments) to (table, heap, result),        *)
(* written statement by statement after the C code, and an action that     *)
(* applies it to the state.                                                *)
(***************************************************************************)
EXTENDS Integers, Sequences, FiniteSets, TLC

VARIABLES oSymTable,  \* struct SymTable: buckets, bucketCount, nodeQuantity, currentPrimeIndex
          heap,       \* allocated struct SymTableNode objects, by address
          last,       \* the last call made by the client and what it returned
          aborted,    \* TRUE once an assert() has failed: the process is gone
          pc,         \* client phase: "fill" (bulk load first), "run" (free use),
                      \* "drain" (removing the bulk keys), "done" (stopped)
          nFilled,    \* number of bulk-load keys put so far
          given,      \* client's record: key -> value passed to its first put
          oList       \* the table of symtablelist.c given the same calls: its
                      \* struct SymTable (st), its nodes (hp), the last return
                      \* value (ret) and whether an assert() failed (aborted)

vars == <<oSymTable, heap, last, aborted, pc, nFilled, given, oList>>

----------------------------------------------------------------------------
(* Program constants *)

NULL == 0

primes == <<509, 1021, 2039, 4093, 8191, 16381, 32771, 65537, 131071, 262147>>

PRIME_COUNT == Len(primes)

HASH_SHIFT_AMOUNT == 5

\* LOAD_FACTOR_THRESHOLD 0.75 as the exact fraction LoadNum / LoadDen
LoadNum == 3
LoadDen == 4

----------------------------------------------------------------------------
(* Bounds of the client *)

\* number of keys the client bulk-loads before it uses the table freely
NFill == 381

\* number of distinct non-null value pointers the client passes
MaxValue == 2

\* number of keys of the client that only inserts
NInsert == 400

\* Keys are strings: sequences of non-zero bytes.  The client's keys in the
\* free phase: "ob" and "laaa" share a bucket at capacity 509 and at 1021,
\* the bulk key "379" shares their bucket at 509 only.
Keys == { <<111, 98>>, <<108, 97, 97, 97>> }

Values == 0 .. MaxValue          \* 0 is the null pointer

\* the i-th bulk-load key: the three decimal digits of i
FillKey(i) == << 48 + (i \div 100), 48 + ((i \div 10) % 10), 48 + (i % 10) >>

\* every key the client ever passes
AllKeys == Keys \cup { FillKey(i) : i \in 0 .. (NFill - 1) }

\* the value pointer the client binds to the i-th bulk-load key
FillValue(i) == 100 + i

----------------------------------------------------------------------------
(* unsigned int arithmetic.  A 32-bit unsigned value is the pair <<hi, lo>>  *)
(* of its 16-bit halves.                                                    *)

Half == 65536

\* (h << n) for an unsigned int h and 0 <= n <= 14: bits shifted out are lost
ShiftLeft(h, n) ==
    << (h[1] * (2 ^ n) + (h[2] * (2 ^ n)) \div Half) % Half, (h[2] * (2 ^ n)) % Half >>

\* AddWrap losing the carry out of the low half
AddWrap_NoCarry(h, c) == << h[1], (h[2] + c) % Half >>

\* h + c for unsigned int h and a byte c, wrapping at 2^32
AddWrap(h, c) ==
    << (h[1] + (h[2] + c) \div Half) % Half, (h[2] + c) % Half >>

\* h % m for unsigned int h and 0 < m < 2^19: (hi * 2^16 + lo) % m, the
\* factor 2^16 applied as 2^8 twice to stay inside the machine integers
UMod(h, m) == ((((h[1] % m) * 256) % m) * 256 + h[2]) % m

\* the while loop of symtablehash_hashFunction from position i, accumulator hash
RECURSIVE hashLoop(_, _, _)
hashLoop(pcKey, i, hash) ==
    IF i > Len(pcKey) THEN hash
    ELSE hashLoop(pcKey, i + 1, AddWrap(ShiftLeft(hash, HASH_SHIFT_AMOUNT), pcKey[i]))

\* the hash values of the client's keys at the first two bucket counts,
\* computed once
hashCache ==
    [ bucketCount \in {primes[1], primes[2]} |->
        [ pcKey \in AllKeys |-> UMod(hashLoop(pcKey, 1, <<0, 0>>), bucketCount) ] ]

symtablehash_hashFunction(pcKey, bucketCount) ==
    IF bucketCount \in DOMAIN hashCache /\ pcKey \in AllKeys
    THEN hashCache[bucketCount][pcKey]
    ELSE UMod(hashLoop(pcKey, 1, <<0, 0>>), bucketCount)

----------------------------------------------------------------------------
(* Heap *)

\* malloc of a node: an address not in use (the lowest one)
Malloc(hp) ==
    LET free == (1 .. (Cardinality(DOMAIN hp) + 1)) \ DOMAIN hp
    IN  CHOOSE a \in free : \A b \in free : a <= b

\* free(p)
Free(hp, p) == [a \in (DOMAIN hp) \ {p} |-> hp[a]]

\* an upper bound on the steps of any walk over an acyclic chain
Fuel(hp) == Cardinality(DOMAIN hp) + 1

\* The chain walk shared by put, replace, contains and get:
\*   while (psCurrentNode != NULL) { if (strcmp(...) == 0) <found>; psCurrentNode = next; }
\* The address of the first node of the chain with an equal key, or NULL.
RECURSIVE FindNode(_, _, _, _)
FindNode(hp, psCurrentNode, pcKey, fuel) ==
    IF psCurrentNode = NULL \/ fuel = 0 THEN NULL
    ELSE IF hp[psCurrentNode].pcKey = pcKey THEN psCurrentNode
    ELSE FindNode(hp, hp[psCurrentNode].psNextNode, pcKey, fuel - 1)

\* the addresses of a chain in walk order
RECURSIVE Chain(_, _, _)
Chain(hp, p, fuel) ==
    IF p = NULL \/ fuel = 0 THEN << >>
    ELSE << p >> \o Chain(hp, hp[p].psNextNode, fuel - 1)

----------------------------------------------------------------------------
(* SymTable_new *)

SymTable_new ==
    [ currentPrimeIndex |-> 0,
      bucketCount       |-> primes[1],
      nodeQuantity      |-> 0,
      buckets           |-> [i \in 0 .. (primes[1] - 1) |-> NULL] ]

(* SymTable_getLength *)
SymTable_getLength(st) == st.nodeQuantity

\* the blocks of memory other than nodes: the struct SymTable, the bucket
\* array, the key copy a node owns, and the node itself as free() is given it
TableBlock   == << "table", NULL >>
BucketsBlock == << "buckets", NULL >>
KeyBlock(a)  == << "key", a >>
NodeBlock(a) == << "node", a >>

\* what oSymTable is when SymTable_new returned NULL or the table is freed:
\* no struct SymTable exists
NoTable == [ allocated |-> FALSE ]

\* the object a value pointer refers to: it belongs to the caller
ValueBlock(v) == << "value", v >>

\* SymTable_new keeping the struct SymTable when calloc fails
SymTable_new_call_Leak(mallocOk, callocOk) ==
    IF ~mallocOk THEN [st |-> NoTable, allocated |-> << >>, freed |-> << >>]
    ELSE IF ~callocOk
         THEN [st |-> NoTable, allocated |-> << TableBlock >>, freed |-> << >>]
    ELSE [st |-> SymTable_new, allocated |-> << TableBlock, BucketsBlock >>, freed |-> << >>]

\* SymTable_new with its two allocations, lines 104-115.
\* mallocOk, callocOk: whether malloc of the struct and calloc of the bucket
\* array succeed.  st is the table returned, NoTable for NULL.
SymTable_new_call(mallocOk, callocOk) ==
    IF ~mallocOk THEN [st |-> NoTable, allocated |-> << >>, freed |-> << >>]
    ELSE IF ~callocOk
         THEN [st |-> NoTable, allocated |-> << TableBlock >>, freed |-> << TableBlock >>]
    ELSE [st |-> SymTable_new, allocated |-> << TableBlock, BucketsBlock >>, freed |-> << >>]

----------------------------------------------------------------------------
(* SymTable_free *)

\* freeChain without free(psCurrentNode->pcKey)
RECURSIVE freeChain_NoKey(_, _, _)
freeChain_NoKey(hp, psCurrentNode, fuel) ==
    IF psCurrentNode = NULL \/ fuel = 0 THEN << >>
    ELSE << NodeBlock(psCurrentNode) >>
         \o freeChain_NoKey(hp, hp[psCurrentNode].psNextNode, fuel - 1)

\* the inner while loop: psNextNode is read, then free(pcKey), free(node)
RECURSIVE freeChain(_, _, _)
freeChain(hp, psCurrentNode, fuel) ==
    IF psCurrentNode = NULL \/ fuel = 0 THEN << >>
    ELSE << KeyBlock(psCurrentNode), NodeBlock(psCurrentNode) >>
         \o freeChain(hp, hp[psCurrentNode].psNextNode, fuel - 1)

\* The outer loop, while (i < oSymTable->bucketCount) { <chain i>; i++; }, run
\* from the loop state m = [i, freed] for at most n iterations, in order.
RECURSIVE freeLoop(_, _, _, _, _)
freeLoop(st, hp, m, n, fuel) ==
    IF n = 0 \/ m.i >= st.bucketCount THEN m
    ELSE IF n = 1
         THEN [ i |-> m.i + 1,
                freed |-> m.freed \o freeChain(hp, st.buckets[m.i], fuel) ]
    ELSE freeLoop(st, hp, freeLoop(st, hp, m, n \div 2, fuel), n - (n \div 2), fuel)

\* the free() calls SymTable_free makes, in order, and the nodes left
SymTable_free(st, hp) ==
    LET freed == freeLoop(st, hp, [i |-> 0, freed |-> << >>], st.bucketCount, Fuel(hp)).freed
                   \o << BucketsBlock, TableBlock >>
        blocks == { freed[j] : j \in 1 .. Len(freed) }
        gone   == { a \in DOMAIN hp : NodeBlock(a) \in blocks }
    IN  [ freed |-> freed, hp |-> [a \in (DOMAIN hp) \ gone |-> hp[a]] ]

----------------------------------------------------------------------------
(* symtablehash_resizeHashTable *)

\* rehashChain with lines 187 and 188 in the other order: the bucket head is
\* set first, so the node is linked to itself
RECURSIVE rehashChain_HeadFirst(_, _, _, _, _)
rehashChain_HeadFirst(hp, newBuckets, newBucketCount, psCurrentNode, fuel) ==
    IF psCurrentNode = NULL \/ fuel = 0 THEN [hp |-> hp, newBuckets |-> newBuckets]
    ELSE LET psNextNode == hp[psCurrentNode].psNextNode
             newIndex   == symtablehash_hashFunction(hp[psCurrentNode].pcKey, newBucketCount)
             newHead    == [newBuckets EXCEPT ![newIndex] = psCurrentNode]
         IN  rehashChain_HeadFirst([hp EXCEPT ![psCurrentNode].psNextNode = newHead[newIndex]],
                                   newHead, newBucketCount, psNextNode, fuel - 1)

\* the inner while loop: relink the chain starting at psCurrentNode into newBuckets
RECURSIVE rehashChain(_, _, _, _, _)
rehashChain(hp, newBuckets, newBucketCount, psCurrentNode, fuel) ==
    IF psCurrentNode = NULL \/ fuel = 0 THEN [hp |-> hp, newBuckets |-> newBuckets]
    ELSE LET psNextNode == hp[psCurrentNode].psNextNode
             newIndex   == symtablehash_hashFunction(hp[psCurrentNode].pcKey, newBucketCount)
         IN  rehashChain([hp EXCEPT ![psCurrentNode].psNextNode = newBuckets[newIndex]],
                         [newBuckets EXCEPT ![newIndex] = psCurrentNode],
                         newBucketCount, psNextNode, fuel - 1)

\* The outer loop, while (i < oSymTable->bucketCount) { <chain i>; i++; }, run
\* from the loop state m = [i, hp, newBuckets] for at most n iterations.  The
\* iterations happen in order: the first n \div 2, then the remaining ones.
RECURSIVE rehashLoop(_, _, _, _, _)
rehashLoop(st, m, newBucketCount, n, fuel) ==
    IF n = 0 \/ m.i >= st.bucketCount THEN m
    ELSE IF n = 1
         THEN LET r == rehashChain(m.hp, m.newBuckets, newBucketCount,
                                   st.buckets[m.i], fuel)
              IN  [i |-> m.i + 1, hp |-> r.hp, newBuckets |-> r.newBuckets]
    ELSE rehashLoop(st, rehashLoop(st, m, newBucketCount, n \div 2, fuel),
                    newBucketCount, n - (n \div 2), fuel)

\* symtablehash_resizeHashTable rehashing with the old bucket count
symtablehash_resizeHashTable_OldCount(st, hp, callocOk) ==
    LET newPrimeIndex == st.currentPrimeIndex + 1
    IN  IF newPrimeIndex >= PRIME_COUNT THEN [st |-> st, hp |-> hp]
        ELSE IF ~callocOk THEN [st |-> st, hp |-> hp]
        ELSE LET newBucketCount == primes[newPrimeIndex + 1]
                 r == rehashLoop(st,
                                 [ i |-> 0, hp |-> hp,
                                   newBuckets |-> [j \in 0 .. (newBucketCount - 1) |-> NULL] ],
                                 st.bucketCount, st.bucketCount, Fuel(hp))
             IN  [ st |-> [st EXCEPT !.buckets = r.newBuckets,
                                     !.bucketCount = newBucketCount,
                                     !.currentPrimeIndex = newPrimeIndex],
                   hp |-> r.hp ]

\* symtablehash_resizeHashTable doubling the bucket count instead of taking
\* the next prime
symtablehash_resizeHashTable_Double(st, hp, callocOk) ==
    LET newPrimeIndex == st.currentPrimeIndex + 1
    IN  IF newPrimeIndex >= PRIME_COUNT THEN [st |-> st, hp |-> hp]
        ELSE IF ~callocOk THEN [st |-> st, hp |-> hp]
        ELSE LET newBucketCount == 2 * st.bucketCount
                 r == rehashLoop(st,
                                 [ i |-> 0, hp |-> hp,
                                   newBuckets |-> [j \in 0 .. (newBucketCount - 1) |-> NULL] ],
                                 newBucketCount, st.bucketCount, Fuel(hp))
             IN  [ st |-> [st EXCEPT !.buckets = r.newBuckets,
                                     !.bucketCount = newBucketCount,
                                     !.currentPrimeIndex = newPrimeIndex],
                   hp |-> r.hp ]

\* symtablehash_resizeHashTable storing the new prime index before calloc is
\* known to have succeeded
symtablehash_resizeHashTable_IndexFirst(st, hp, callocOk) ==
    LET newPrimeIndex == st.currentPrimeIndex + 1
    IN  IF newPrimeIndex >= PRIME_COUNT THEN [st |-> st, hp |-> hp]
        ELSE IF ~callocOk
             THEN [st |-> [st EXCEPT !.currentPrimeIndex = newPrimeIndex], hp |-> hp]
        ELSE LET newBucketCount == primes[newPrimeIndex + 1]
                 r == rehashLoop(st,
                                 [ i |-> 0, hp |-> hp,
                                   newBuckets |-> [j \in 0 .. (newBucketCount - 1) |-> NULL] ],
                                 newBucketCount, st.bucketCount, Fuel(hp))
             IN  [ st |-> [st EXCEPT !.buckets = r.newBuckets,
                                     !.bucketCount = newBucketCount,
                                     !.currentPrimeIndex = newPrimeIndex],
                   hp |-> r.hp ]

\* symtablehash_resizeHashTable advancing the prime index when no prime is left
symtablehash_resizeHashTable_PastEnd(st, hp, callocOk) ==
    LET newPrimeIndex == st.currentPrimeIndex + 1
    IN  IF newPrimeIndex >= PRIME_COUNT
        THEN [st |-> [st EXCEPT !.currentPrimeIndex = newPrimeIndex], hp |-> hp]
        ELSE IF ~callocOk THEN [st |-> st, hp |-> hp]
        ELSE LET newBucketCount == primes[newPrimeIndex + 1]
                 r == rehashLoop(st,
                                 [ i |-> 0, hp |-> hp,
                                   newBuckets |-> [j \in 0 .. (newBucketCount - 1) |-> NULL] ],
                                 newBucketCount, st.bucketCount, Fuel(hp))
             IN  [ st |-> [st EXCEPT !.buckets = r.newBuckets,
                                     !.bucketCount = newBucketCount,
                                     !.currentPrimeIndex = newPrimeIndex],
                   hp |-> r.hp ]

\* callocOk: whether calloc of the new bucket array succeeds
symtablehash_resizeHashTable(st, hp, callocOk) ==
    LET newPrimeIndex == st.currentPrimeIndex + 1
    IN  IF newPrimeIndex >= PRIME_COUNT THEN [st |-> st, hp |-> hp]
        ELSE IF ~callocOk THEN [st |-> st, hp |-> hp]
        ELSE LET newBucketCount == primes[newPrimeIndex + 1]
                 r == rehashLoop(st,
                                 [ i |-> 0, hp |-> hp,
                                   newBuckets |-> [j \in 0 .. (newBucketCount - 1) |-> NULL] ],
                                 newBucketCount, st.bucketCount, Fuel(hp))
             IN  [ st |-> [st EXCEPT !.buckets = r.newBuckets,
                                     !.bucketCount = newBucketCount,
                                     !.currentPrimeIndex = newPrimeIndex],
                   hp |-> r.hp ]

\* (double)nodeQuantity / bucketCount > LOAD_FACTOR_THRESHOLD
LoadExceeded(st) == LoadDen * st.nodeQuantity > LoadNum * st.bucketCount

----------------------------------------------------------------------------
(* SymTable_put *)

\* SymTable_put that never grows the table
SymTable_put_grow_Never(st, hp, callocOk) == [st |-> st, hp |-> hp]

\* SymTable_put that attempts growth only when the count has just crossed the
\* threshold: an abandoned attempt is not made again
SymTable_put_grow_Once(st, hp, callocOk) ==
    IF LoadExceeded(st) /\ ~LoadExceeded([st EXCEPT !.nodeQuantity = @ - 1])
    THEN symtablehash_resizeHashTable(st, hp, callocOk)
    ELSE [st |-> st, hp |-> hp]

\* Lines 219-222, the growth check at entry:
\*   if ((double)nodeQuantity / bucketCount > LOAD_FACTOR_THRESHOLD) resize
\* callocOk: whether calloc of the new bucket array would succeed
SymTable_put_grow(st, hp, callocOk) ==
    IF LoadExceeded(st) THEN symtablehash_resizeHashTable(st, hp, callocOk)
    ELSE [st |-> st, hp |-> hp]

\* SymTable_put_insert without nodeQuantity++
SymTable_put_insert_NoCount(r, pcKey, pvValue, nodeOk, keyOk) ==
    LET index == symtablehash_hashFunction(pcKey, r.st.bucketCount)
        dup   == FindNode(r.hp, r.st.buckets[index], pcKey, Fuel(r.hp))
    IN  IF dup # NULL THEN [st |-> r.st, hp |-> r.hp, ret |-> 0]
        ELSE IF ~nodeOk THEN [st |-> r.st, hp |-> r.hp, ret |-> 0]
        ELSE IF ~keyOk THEN [st |-> r.st, hp |-> r.hp, ret |-> 0]
        ELSE LET psNewNode == Malloc(r.hp)
             IN  [ st  |-> [r.st EXCEPT !.buckets[index] = psNewNode],
                   hp  |-> (psNewNode :> [ pcKey      |-> pcKey,
                                           pvValue    |-> pvValue,
                                           psNextNode |-> r.st.buckets[index] ]) @@ r.hp,
                   ret |-> 1 ]

\* SymTable_put_insert storing the new value into the duplicate it found
SymTable_put_insert_Overwrite(r, pcKey, pvValue, nodeOk, keyOk) ==
    LET index == symtablehash_hashFunction(pcKey, r.st.bucketCount)
        dup   == FindNode(r.hp, r.st.buckets[index], pcKey, Fuel(r.hp))
    IN  IF dup # NULL
        THEN [st |-> r.st, hp |-> [r.hp EXCEPT ![dup].pvValue = pvValue], ret |-> 0]
        ELSE IF ~nodeOk THEN [st |-> r.st, hp |-> r.hp, ret |-> 0]
        ELSE IF ~keyOk THEN [st |-> r.st, hp |-> r.hp, ret |-> 0]
        ELSE LET psNewNode == Malloc(r.hp)
             IN  [ st  |-> [r.st EXCEPT !.buckets[index] = psNewNode,
                                        !.nodeQuantity = @ + 1],
                   hp  |-> (psNewNode :> [ pcKey      |-> pcKey,
                                           pvValue    |-> pvValue,
                                           psNextNode |-> r.st.buckets[index] ]) @@ r.hp,
                   ret |-> 1 ]

\* SymTable_put_insert comparing the key with the chain head only
SymTable_put_insert_HeadOnly(r, pcKey, pvValue, nodeOk, keyOk) ==
    LET index == symtablehash_hashFunction(pcKey, r.st.bucketCount)
        dup   == FindNode(r.hp, r.st.buckets[index], pcKey, 1)
    IN  IF dup # NULL THEN [st |-> r.st, hp |-> r.hp, ret |-> 0]
        ELSE IF ~nodeOk THEN [st |-> r.st, hp |-> r.hp, ret |-> 0]
        ELSE IF ~keyOk THEN [st |-> r.st, hp |-> r.hp, ret |-> 0]
        ELSE LET psNewNode == Malloc(r.hp)
             IN  [ st  |-> [r.st EXCEPT !.buckets[index] = psNewNode,
                                        !.nodeQuantity = @ + 1],
                   hp  |-> (psNewNode :> [ pcKey      |-> pcKey,
                                           pvValue    |-> pvValue,
                                           psNextNode |-> r.st.buckets[index] ]) @@ r.hp,
                   ret |-> 1 ]

\* SymTable_put_insert refusing a null value
SymTable_put_insert_RejectNull(r, pcKey, pvValue, nodeOk, keyOk) ==
    LET index == symtablehash_hashFunction(pcKey, r.st.bucketCount)
        dup   == FindNode(r.hp, r.st.buckets[index], pcKey, Fuel(r.hp))
    IN  IF pvValue = NULL \/ dup # NULL \/ ~nodeOk \/ ~keyOk
        THEN [st |-> r.st, hp |-> r.hp, ret |-> 0]
        ELSE LET psNewNode == Malloc(r.hp)
             IN  [ st  |-> [r.st EXCEPT !.buckets[index] = psNewNode,
                                        !.nodeQuantity = @ + 1],
                   hp  |-> (psNewNode :> [ pcKey      |-> pcKey,
                                           pvValue    |-> pvValue,
                                           psNextNode |-> r.st.buckets[index] ]) @@ r.hp,
                   ret |-> 1 ]

\* the node malloc returns: no field is set yet
NewNode == [pcKey |-> << >>, pvValue |-> NULL, psNextNode |-> NULL]

\* SymTable_put_insert without free(psNewNode) when the key copy cannot be
\* allocated
SymTable_put_insert_Leak(r, pcKey, pvValue, nodeOk, keyOk) ==
    LET index == symtablehash_hashFunction(pcKey, r.st.bucketCount)
        dup   == FindNode(r.hp, r.st.buckets[index], pcKey, Fuel(r.hp))
    IN  IF dup # NULL THEN [st |-> r.st, hp |-> r.hp, ret |-> 0]
        ELSE IF ~nodeOk THEN [st |-> r.st, hp |-> r.hp, ret |-> 0]
        ELSE IF ~keyOk
             THEN LET psNewNode == Malloc(r.hp)
                  IN  [st |-> r.st, hp |-> (psNewNode :> NewNode) @@ r.hp, ret |-> 0]
        ELSE LET psNewNode == Malloc(r.hp)
             IN  [ st  |-> [r.st EXCEPT !.buckets[index] = psNewNode,
                                        !.nodeQuantity = @ + 1],
                   hp  |-> (psNewNode :> [ pcKey      |-> pcKey,
                                           pvValue    |-> pvValue,
                                           psNextNode |-> r.st.buckets[index] ]) @@ r.hp,
                   ret |-> 1 ]

\* Lines 224-251, from the table r = [st, hp] the growth check left: the
\* duplicate walk, the two allocations and the insertion at the chain head.
\* nodeOk, keyOk: whether malloc of the node and of the key copy succeed
SymTable_put_insert(r, pcKey, pvValue, nodeOk, keyOk) ==
    LET index == symtablehash_hashFunction(pcKey, r.st.bucketCount)
        dup   == FindNode(r.hp, r.st.buckets[index], pcKey, Fuel(r.hp))
    IN  IF dup # NULL THEN [st |-> r.st, hp |-> r.hp, ret |-> 0]
        ELSE IF ~nodeOk THEN [st |-> r.st, hp |-> r.hp, ret |-> 0]
        ELSE IF ~keyOk
             THEN LET psNewNode == Malloc(r.hp)     \* the node, freed again
                  IN  [ st  |-> r.st,
                        hp  |-> Free((psNewNode :> NewNode) @@ r.hp, psNewNode),
                        ret |-> 0 ]
        ELSE LET psNewNode == Malloc(r.hp)
             IN  [ st  |-> [r.st EXCEPT !.buckets[index] = psNewNode,
                                        !.nodeQuantity = @ + 1],
                   hp  |-> (psNewNode :> [ pcKey      |-> pcKey,
                                           pvValue    |-> pvValue,
                                           psNextNode |-> r.st.buckets[index] ]) @@ r.hp,
                   ret |-> 1 ]

SymTable_put(st, hp, pcKey, pvValue, callocOk, nodeOk, keyOk) ==
    SymTable_put_insert(SymTable_put_grow(st, hp, callocOk), pcKey, pvValue, nodeOk, keyOk)

----------------------------------------------------------------------------
(* SymTable_replace *)

\* SymTable_replace returning the value it has just stored
SymTable_replace_NewValue(st, hp, pcKey, pvValue) ==
    LET index == symtablehash_hashFunction(pcKey, st.bucketCount)
        psCurrentNode == FindNode(hp, st.buckets[index], pcKey, Fuel(hp))
    IN  IF psCurrentNode # NULL
        THEN [ st |-> st,
               hp |-> [hp EXCEPT ![psCurrentNode].pvValue = pvValue],
               ret |-> pvValue ]
        ELSE [st |-> st, hp |-> hp, ret |-> NULL]

\* SymTable_replace binding the key when it is absent
SymTable_replace_Upsert(st, hp, pcKey, pvValue) ==
    LET index == symtablehash_hashFunction(pcKey, st.bucketCount)
        psCurrentNode == FindNode(hp, st.buckets[index], pcKey, Fuel(hp))
        psNewNode == Malloc(hp)
    IN  IF psCurrentNode # NULL
        THEN [ st |-> st,
               hp |-> [hp EXCEPT ![psCurrentNode].pvValue = pvValue],
               ret |-> hp[psCurrentNode].pvValue ]
        ELSE [ st  |-> [st EXCEPT !.buckets[index] = psNewNode, !.nodeQuantity = @ + 1],
               hp  |-> (psNewNode :> [ pcKey      |-> pcKey,
                                       pvValue    |-> pvValue,
                                       psNextNode |-> st.buckets[index] ]) @@ hp,
               ret |-> NULL ]

SymTable_replace(st, hp, pcKey, pvValue) ==
    LET index == symtablehash_hashFunction(pcKey, st.bucketCount)
        psCurrentNode == FindNode(hp, st.buckets[index], pcKey, Fuel(hp))
    IN  IF psCurrentNode # NULL
        THEN [ st |-> st,
               hp |-> [hp EXCEPT ![psCurrentNode].pvValue = pvValue],
               ret |-> hp[psCurrentNode].pvValue ]
        ELSE [st |-> st, hp |-> hp, ret |-> NULL]

(* SymTable_contains *)

SymTable_contains(st, hp, pcKey) ==
    LET index == symtablehash_hashFunction(pcKey, st.bucketCount)
    IN  IF FindNode(hp, st.buckets[index], pcKey, Fuel(hp)) # NULL THEN 1 ELSE 0

(* SymTable_get *)

SymTable_get(st, hp, pcKey) ==
    LET index == symtablehash_hashFunction(pcKey, st.bucketCount)
        psCurrentNode == FindNode(hp, st.buckets[index], pcKey, Fuel(hp))
    IN  IF psCurrentNode # NULL THEN hp[psCurrentNode].pvValue ELSE NULL

----------------------------------------------------------------------------
(* SymTable_remove *)

\* removeWalk without nodeQuantity--
RECURSIVE removeWalk_NoCount(_, _, _, _, _, _, _)
removeWalk_NoCount(st, hp, index, pcKey, psCurrentNode, psPrevNode, fuel) ==
    IF psCurrentNode = NULL \/ fuel = 0 THEN [st |-> st, hp |-> hp, ret |-> NULL]
    ELSE IF hp[psCurrentNode].pcKey = pcKey
    THEN LET oldValue == hp[psCurrentNode].pvValue
             st1 == IF psPrevNode = NULL
                    THEN [st EXCEPT !.buckets[index] = hp[psCurrentNode].psNextNode]
                    ELSE st
             hp1 == IF psPrevNode = NULL
                    THEN hp
                    ELSE [hp EXCEPT ![psPrevNode].psNextNode = hp[psCurrentNode].psNextNode]
         IN  [ st  |-> st1,
               hp  |-> Free(hp1, psCurrentNode),
               ret |-> oldValue ]
    ELSE removeWalk_NoCount(st, hp, index, pcKey, hp[psCurrentNode].psNextNode,
                            psCurrentNode, fuel - 1)

\* removeWalk with nodeQuantity-- also when the walk ends without a match
RECURSIVE removeWalk_AlwaysCount(_, _, _, _, _, _, _)
removeWalk_AlwaysCount(st, hp, index, pcKey, psCurrentNode, psPrevNode, fuel) ==
    IF psCurrentNode = NULL \/ fuel = 0
    THEN [st |-> [st EXCEPT !.nodeQuantity = @ - 1], hp |-> hp, ret |-> NULL]
    ELSE IF hp[psCurrentNode].pcKey = pcKey
    THEN LET oldValue == hp[psCurrentNode].pvValue
             st1 == IF psPrevNode = NULL
                    THEN [st EXCEPT !.buckets[index] = hp[psCurrentNode].psNextNode]
                    ELSE st
             hp1 == IF psPrevNode = NULL
                    THEN hp
                    ELSE [hp EXCEPT ![psPrevNode].psNextNode = hp[psCurrentNode].psNextNode]
         IN  [ st  |-> [st1 EXCEPT !.nodeQuantity = @ - 1],
               hp  |-> Free(hp1, psCurrentNode),
               ret |-> oldValue ]
    ELSE removeWalk_AlwaysCount(st, hp, index, pcKey, hp[psCurrentNode].psNextNode,
                                psCurrentNode, fuel - 1)

\* removeWalk that always unlinks through the bucket head: the nodes before
\* the removed one are dropped from the chain
RECURSIVE removeWalk_RelinkHead(_, _, _, _, _, _, _)
removeWalk_RelinkHead(st, hp, index, pcKey, psCurrentNode, psPrevNode, fuel) ==
    IF psCurrentNode = NULL \/ fuel = 0 THEN [st |-> st, hp |-> hp, ret |-> NULL]
    ELSE IF hp[psCurrentNode].pcKey = pcKey
    THEN LET oldValue == hp[psCurrentNode].pvValue
             st1 == [st EXCEPT !.buckets[index] = hp[psCurrentNode].psNextNode]
         IN  [ st  |-> [st1 EXCEPT !.nodeQuantity = @ - 1],
               hp  |-> Free(hp, psCurrentNode),
               ret |-> oldValue ]
    ELSE removeWalk_RelinkHead(st, hp, index, pcKey, hp[psCurrentNode].psNextNode,
                               psCurrentNode, fuel - 1)

\* the while loop of SymTable_remove from psCurrentNode, psPrevNode
RECURSIVE removeWalk(_, _, _, _, _, _, _)
removeWalk(st, hp, index, pcKey, psCurrentNode, psPrevNode, fuel) ==
    IF psCurrentNode = NULL \/ fuel = 0 THEN [st |-> st, hp |-> hp, ret |-> NULL]
    ELSE IF hp[psCurrentNode].pcKey = pcKey
    THEN LET oldValue == hp[psCurrentNode].pvValue
             st1 == IF psPrevNode = NULL
                    THEN [st EXCEPT !.buckets[index] = hp[psCurrentNode].psNextNode]
                    ELSE st
             hp1 == IF psPrevNode = NULL
                    THEN hp
                    ELSE [hp EXCEPT ![psPrevNode].psNextNode = hp[psCurrentNode].psNextNode]
         IN  [ st  |-> [st1 EXCEPT !.nodeQuantity = @ - 1],
               hp  |-> Free(hp1, psCurrentNode),
               ret |-> oldValue ]
    ELSE removeWalk(st, hp, index, pcKey, hp[psCurrentNode].psNextNode, psCurrentNode, fuel - 1)

SymTable_remove(st, hp, pcKey) ==
    LET index == symtablehash_hashFunction(pcKey, st.bucketCount)
    IN  removeWalk(st, hp, index, pcKey, st.buckets[index], NULL, Fuel(hp))

----------------------------------------------------------------------------
(* SymTable_map *)

\* mapChain looping while (psCurrentNode->psNextNode != NULL): the last node
\* of a chain is not visited
RECURSIVE mapChain_SkipLast(_, _, _, _)
mapChain_SkipLast(hp, psCurrentNode, pvExtra, fuel) ==
    IF psCurrentNode = NULL \/ fuel = 0 THEN << >>
    ELSE IF hp[psCurrentNode].psNextNode = NULL THEN << >>
    ELSE << << hp[psCurrentNode].pcKey, hp[psCurrentNode].pvValue, pvExtra >> >>
         \o mapChain_SkipLast(hp, hp[psCurrentNode].psNextNode, pvExtra, fuel - 1)

\* the inner while loop: one (*pfApply)(pcKey, pvValue, pvExtra) per node
RECURSIVE mapChain(_, _, _, _)
mapChain(hp, psCurrentNode, pvExtra, fuel) ==
    IF psCurrentNode = NULL \/ fuel = 0 THEN << >>
    ELSE << << hp[psCurrentNode].pcKey, hp[psCurrentNode].pvValue, pvExtra >> >>
         \o mapChain(hp, hp[psCurrentNode].psNextNode, pvExtra, fuel - 1)

\* The outer loop, while (i < oSymTable->bucketCount) { <chain i>; i++; }, run
\* from the loop state m = [i, calls] for at most n iterations, in order.
RECURSIVE mapLoop(_, _, _, _, _, _)
mapLoop(st, hp, pvExtra, m, n, fuel) ==
    IF n = 0 \/ m.i >= st.bucketCount THEN m
    ELSE IF n = 1
         THEN [ i |-> m.i + 1,
                calls |-> m.calls \o mapChain(hp, st.buckets[m.i], pvExtra, fuel) ]
    ELSE mapLoop(st, hp, pvExtra, mapLoop(st, hp, pvExtra, m, n \div 2, fuel),
                 n - (n \div 2), fuel)

\* the sequence of callback invocations <<key, value, extra>> SymTable_map makes
SymTable_map(st, hp, pvExtra) ==
    mapLoop(st, hp, pvExtra, [i |-> 0, calls |-> << >>], st.bucketCount, Fuel(hp)).calls

----------------------------------------------------------------------------
(* symtablelist.c: the same interface over one singly linked list *)

SymTableList_new == [psFirstNode |-> NULL, nodeQuantity |-> 0]

SymTableList_getLength(st) == st.nodeQuantity

\* nodeOk, keyOk: whether malloc of the node and of the key copy succeed
SymTableList_put(st, hp, pcKey, pvValue, nodeOk, keyOk) ==
    IF FindNode(hp, st.psFirstNode, pcKey, Fuel(hp)) # NULL
    THEN [st |-> st, hp |-> hp, ret |-> 0]
    ELSE IF ~nodeOk THEN [st |-> st, hp |-> hp, ret |-> 0]
    ELSE IF ~keyOk
         THEN LET psNewNode == Malloc(hp)           \* the node, freed again
              IN  [st |-> st, hp |-> Free((psNewNode :> NewNode) @@ hp, psNewNode), ret |-> 0]
    ELSE LET psNewNode == Malloc(hp)
         IN  [ st  |-> [st EXCEPT !.nodeQuantity = @ + 1,
                                  !.psFirstNode = psNewNode],
               hp  |-> (psNewNode :> [ pcKey      |-> pcKey,
                                       pvValue    |-> pvValue,
                                       psNextNode |-> st.psFirstNode ]) @@ hp,
               ret |-> 1 ]

\* no assert on pvValue here
SymTableList_replace(st, hp, pcKey, pvValue) ==
    LET psCurrentNode == FindNode(hp, st.psFirstNode, pcKey, Fuel(hp))
    IN  IF psCurrentNode = NULL THEN [st |-> st, hp |-> hp, ret |-> NULL]
        ELSE [ st  |-> st,
               hp  |-> [hp EXCEPT ![psCurrentNode].pvValue = pvValue],
               ret |-> hp[psCurrentNode].pvValue ]

SymTableList_contains(st, hp, pcKey) ==
    IF FindNode(hp, st.psFirstNode, pcKey, Fuel(hp)) # NULL THEN 1 ELSE 0

SymTableList_get(st, hp, pcKey) ==
    LET psCurrentNode == FindNode(hp, st.psFirstNode, pcKey, Fuel(hp))
    IN  IF psCurrentNode = NULL THEN NULL ELSE hp[psCurrentNode].pvValue

\* the for loop of SymTable_remove from psCurrentNode, psPrevNode
RECURSIVE listRemoveWalk(_, _, _, _, _, _)
listRemoveWalk(st, hp, pcKey, psCurrentNode, psPrevNode, fuel) ==
    IF psCurrentNode = NULL \/ fuel = 0 THEN [st |-> st, hp |-> hp, ret |-> NULL]
    ELSE IF hp[psCurrentNode].pcKey = pcKey
    THEN LET oldValue == hp[psCurrentNode].pvValue
             st1 == IF psPrevNode = NULL
                    THEN [st EXCEPT !.psFirstNode = hp[psCurrentNode].psNextNode]
                    ELSE st
             hp1 == IF psPrevNode = NULL
                    THEN hp
                    ELSE [hp EXCEPT ![psPrevNode].psNextNode = hp[psCurrentNode].psNextNode]
         IN  [ st  |-> [st1 EXCEPT !.nodeQuantity = @ - 1],
               hp  |-> Free(hp1, psCurrentNode),
               ret |-> oldValue ]
    ELSE listRemoveWalk(st, hp, pcKey, hp[psCurrentNode].psNextNode, psCurrentNode, fuel - 1)

SymTableList_remove(st, hp, pcKey) ==
    listRemoveWalk(st, hp, pcKey, st.psFirstNode, NULL, Fuel(hp))

----------------------------------------------------------------------------
(* The client *)

\* a null char pointer; no string equals it (strings hold no 0 byte)
NullKey == << NULL >>

\* a non-null pvExtra
Ctx == MaxValue + 1

\* the record of a call: nullTable says that the table handle passed was NULL,
\* visited lists the callback calls of a map, allocated the blocks a
\* SymTable_new obtained, freed the free() calls of a SymTable_new or a
\* SymTable_free, in order, hash the value of the local variable hash when
\* symtablehash_hashFunction is called by itself
NoCall ==
    [ op |-> "none", key |-> << >>, value |-> NULL, ret |-> NULL,
      visited |-> << >>, nullTable |-> FALSE, allocated |-> << >>, freed |-> << >>,
      hash |-> << 0, 0 >> ]

Call(op, key, value, ret) ==
    [ op |-> op, key |-> key, value |-> value, ret |-> ret,
      visited |-> << >>, nullTable |-> FALSE, allocated |-> << >>, freed |-> << >>,
      hash |-> << 0, 0 >> ]

\* the functions that assert(oSymTable != NULL)
TableOps == {"free", "getLength", "put", "replace", "contains", "get", "remove", "map"}

\* the step is a call of the client, recorded in last'
IsCall == pc' = pc

Init ==
    /\ oSymTable = SymTable_new
    /\ heap = << >>
    /\ last = NoCall
    /\ aborted = FALSE
    /\ pc \in {"fill", "run"}
    /\ nFilled = 0
    /\ given = << >>
    /\ oList = [st |-> SymTableList_new, hp |-> << >>, ret |-> NULL, aborted |-> FALSE]

\* a failed assert() that lets the call return NULL
AbortCall_Tolerated(call) ==
    /\ last' = call
    /\ UNCHANGED <<oSymTable, heap, aborted, pc, nFilled, given, oList>>

\* an assert() fails: the process aborts with the table as it was
AbortCall(call) ==
    /\ aborted' = TRUE
    /\ last' = call
    /\ UNCHANGED <<oSymTable, heap, pc, nFilled, given, oList>>

Abort(op, key, value) == AbortCall(Call(op, key, value, NULL))

\* assert(oSymTable != NULL): any function called with a null table handle
NullTable ==
    /\ pc = "run" /\ ~aborted
    /\ \E op \in TableOps :
         AbortCall([Call(op, << >>, NULL, NULL) EXCEPT !.nullTable = TRUE])

\* the bulk load: put of the next bulk key, all allocations succeeding
Fill ==
    /\ pc = "fill" /\ ~aborted
    /\ nFilled < NFill
    /\ LET r == SymTable_put(oSymTable, heap, FillKey(nFilled), FillValue(nFilled),
                             TRUE, TRUE, TRUE)
       IN  /\ oSymTable' = r.st
           /\ heap' = r.hp
           /\ last' = Call("put", FillKey(nFilled), FillValue(nFilled), r.ret)
           /\ given' = (FillKey(nFilled) :> FillValue(nFilled)) @@ given
    /\ nFilled' = nFilled + 1
    /\ UNCHANGED <<aborted, pc, oList>>

FillDone ==
    /\ pc = "fill" /\ ~aborted
    /\ nFilled = NFill
    /\ pc' = "run"
    /\ UNCHANGED <<oSymTable, heap, last, aborted, nFilled, given, oList>>

\* SymTable_put(oSymTable, pcKey, pvValue) with a non-null key.  An allocation
\* outcome is chosen only where the code allocates: calloc when the load
\* factor is exceeded, the key's malloc when the node's malloc succeeded.
Put ==
    /\ pc = "run" /\ ~aborted
    /\ \E callocOk \in (IF LoadExceeded(oSymTable) THEN BOOLEAN ELSE {TRUE}) :
         \E g \in {SymTable_put_grow(oSymTable, heap, callocOk)} :
             \E pcKey \in Keys, pvValue \in Values, nodeOk \in BOOLEAN :
              \E keyOk \in (IF nodeOk THEN BOOLEAN ELSE {TRUE}) :
               LET r == SymTable_put_insert(g, pcKey, pvValue, nodeOk, keyOk)
               IN  /\ oSymTable' = r.st
                   /\ heap' = r.hp
                   /\ last' = Call("put", pcKey, pvValue, r.ret)
    /\ UNCHANGED <<aborted, pc, nFilled, given, oList>>

\* assert(pcKey != NULL) of put
PutNullKey ==
    /\ pc = "run" /\ ~aborted
    /\ \E pvValue \in Values : Abort("put", NullKey, pvValue)

Replace ==
    /\ pc = "run" /\ ~aborted
    /\ \E pcKey \in Keys \cup {NullKey}, pvValue \in Values :
         IF pcKey = NullKey \/ pvValue = NULL
         THEN Abort("replace", pcKey, pvValue)     \* assert(pcKey != NULL); assert(pvValue != NULL)
         ELSE LET r == SymTable_replace(oSymTable, heap, pcKey, pvValue)
              IN  /\ oSymTable' = r.st
                  /\ heap' = r.hp
                  /\ last' = Call("replace", pcKey, pvValue, r.ret)
                  /\ UNCHANGED <<aborted, pc, nFilled, given, oList>>

Contains ==
    /\ pc = "run" /\ ~aborted
    /\ \E pcKey \in Keys \cup {NullKey} :
         IF pcKey = NullKey
         THEN Abort("contains", pcKey, NULL)
         ELSE /\ last' = Call("contains", pcKey, NULL, SymTable_contains(oSymTable, heap, pcKey))
              /\ UNCHANGED <<oSymTable, heap, aborted, pc, nFilled, given, oList>>

Get ==
    /\ pc = "run" /\ ~aborted
    /\ \E pcKey \in Keys \cup {NullKey} :
         IF pcKey = NullKey
         THEN Abort("get", pcKey, NULL)
         ELSE /\ last' = Call("get", pcKey, NULL, SymTable_get(oSymTable, heap, pcKey))
              /\ UNCHANGED <<oSymTable, heap, aborted, pc, nFilled, given, oList>>

Remove ==
    /\ pc = "run" /\ ~aborted
    /\ \E pcKey \in Keys \cup {NullKey} :
         IF pcKey = NullKey
         THEN Abort("remove", pcKey, NULL)
         ELSE LET r == SymTable_remove(oSymTable, heap, pcKey)
              IN  /\ oSymTable' = r.st
                  /\ heap' = r.hp
                  /\ last' = Call("remove", pcKey, NULL, r.ret)
                  /\ UNCHANGED <<aborted, pc, nFilled, given, oList>>

GetLength ==
    /\ pc = "run" /\ ~aborted
    /\ last' = Call("getLength", << >>, NULL, SymTable_getLength(oSymTable))
    /\ UNCHANGED <<oSymTable, heap, aborted, pc, nFilled, given, oList>>

\* SymTable_map with a callback that records its arguments
Map ==
    /\ pc = "run" /\ ~aborted
    /\ \E pvExtra \in {NULL, Ctx} :
         IF pvExtra = NULL
         THEN Abort("map", << >>, pvExtra)         \* assert(pvExtra != NULL)
         ELSE /\ last' = [ Call("map", << >>, pvExtra, NULL)
                           EXCEPT !.visited = SymTable_map(oSymTable, heap, pvExtra) ]
              /\ UNCHANGED <<oSymTable, heap, aborted, pc, nFilled, given, oList>>

Next ==
    \/ Fill
    \/ FillDone
    \/ Put
    \/ PutNullKey
    \/ Replace
    \/ Contains
    \/ Get
    \/ Remove
    \/ GetLength
    \/ Map
    \/ NullTable

Spec == Init /\ [][Next]_vars

----------------------------------------------------------------------------
(* A client that only puts, every key once, and never runs out of memory *)

PutFresh ==
    /\ pc = "run" /\ ~aborted
    /\ \E pcKey \in Keys \ DOMAIN given, pvValue \in Values :
         LET r == SymTable_put(oSymTable, heap, pcKey, pvValue, TRUE, TRUE, TRUE)
         IN  /\ oSymTable' = r.st
             /\ heap' = r.hp
             /\ last' = Call("put", pcKey, pvValue, r.ret)
             /\ given' = (pcKey :> pvValue) @@ given
    /\ UNCHANGED <<aborted, pc, nFilled, oList>>

NextDistinctPuts ==
    \/ Fill
    \/ FillDone
    \/ PutFresh

SpecDistinctPuts == Init /\ [][NextDistinctPuts]_vars

----------------------------------------------------------------------------
(* A client that only puts, allocation failures included *)

NextGrow ==
    \/ Fill
    \/ FillDone
    \/ Put

SpecGrow == Init /\ [][NextGrow]_vars

----------------------------------------------------------------------------
(* A client that, once the table has grown and its own keys are removed,
   removes the bulk keys one by one and then goes on using the table *)

StartDrain ==
    /\ pc = "run" /\ ~aborted
    /\ nFilled = NFill
    /\ oSymTable.currentPrimeIndex > 0
    /\ \A k \in Keys : SymTable_contains(oSymTable, heap, k) = 0
    /\ pc' = "drain"
    /\ UNCHANGED <<oSymTable, heap, last, aborted, nFilled, given, oList>>

Drain ==
    /\ pc = "drain" /\ ~aborted
    /\ nFilled > 0
    /\ LET r == SymTable_remove(oSymTable, heap, FillKey(nFilled - 1))
       IN  /\ oSymTable' = r.st
           /\ heap' = r.hp
           /\ last' = Call("remove", FillKey(nFilled - 1), NULL, r.ret)
    /\ nFilled' = nFilled - 1
    /\ UNCHANGED <<aborted, pc, given, oList>>

DrainDone ==
    /\ pc = "drain" /\ ~aborted
    /\ nFilled = 0
    /\ pc' = "run"
    /\ UNCHANGED <<oSymTable, heap, last, aborted, nFilled, given, oList>>

NextDrain ==
    \/ Next
    \/ StartDrain
    \/ Drain
    \/ DrainDone

SpecDrain == Init /\ [][NextDrain]_vars

----------------------------------------------------------------------------
(* A client that inserts NInsert distinct keys into a new table and stops *)

Insert ==
    /\ pc = "fill" /\ ~aborted
    /\ nFilled < NInsert
    /\ LET r == SymTable_put(oSymTable, heap, FillKey(nFilled), FillValue(nFilled),
                             TRUE, TRUE, TRUE)
       IN  /\ oSymTable' = r.st
           /\ heap' = r.hp
           /\ last' = Call("put", FillKey(nFilled), FillValue(nFilled), r.ret)
           /\ given' = (FillKey(nFilled) :> FillValue(nFilled)) @@ given
    /\ nFilled' = nFilled + 1
    /\ UNCHANGED <<aborted, pc, oList>>

InsertDone ==
    /\ pc = "fill" /\ ~aborted
    /\ nFilled = NInsert
    /\ pc' = "done"
    /\ UNCHANGED <<oSymTable, heap, last, aborted, nFilled, given, oList>>

NextInsert ==
    \/ Insert
    \/ InsertDone

SpecInsert == Init /\ [][NextInsert]_vars

----------------------------------------------------------------------------
(* A client that makes every call on a table of symtablehash.c and on a
   table of symtablelist.c, both new, with the same allocation outcomes *)

Both == pc = "run" /\ nFilled = 0 /\ ~aborted /\ ~oList.aborted

BothPut ==
    /\ Both
    /\ \E pcKey \in Keys, pvValue \in Values, nodeOk \in BOOLEAN :
        \E keyOk \in (IF nodeOk THEN BOOLEAN ELSE {TRUE}) :
          LET r == SymTable_put(oSymTable, heap, pcKey, pvValue, TRUE, nodeOk, keyOk)
              l == SymTableList_put(oList.st, oList.hp, pcKey, pvValue, nodeOk, keyOk)
          IN  /\ oSymTable' = r.st
              /\ heap' = r.hp
              /\ last' = Call("put", pcKey, pvValue, r.ret)
              /\ oList' = [oList EXCEPT !.st = l.st, !.hp = l.hp, !.ret = l.ret]
    /\ UNCHANGED <<aborted, pc, nFilled, given>>

BothReplace ==
    /\ Both
    /\ \E pcKey \in Keys, pvValue \in Values :
         LET l == SymTableList_replace(oList.st, oList.hp, pcKey, pvValue)
         IN  /\ oList' = [oList EXCEPT !.st = l.st, !.hp = l.hp, !.ret = l.ret]
             /\ IF pvValue = NULL                   \* assert(pvValue != NULL), hash only
                THEN /\ aborted' = TRUE
                     /\ last' = Call("replace", pcKey, pvValue, NULL)
                     /\ UNCHANGED <<oSymTable, heap, pc, nFilled, given>>
                ELSE LET r == SymTable_replace(oSymTable, heap, pcKey, pvValue)
                     IN  /\ oSymTable' = r.st
                         /\ heap' = r.hp
                         /\ last' = Call("replace", pcKey, pvValue, r.ret)
                         /\ UNCHANGED <<aborted, pc, nFilled, given>>

BothContains ==
    /\ Both
    /\ \E pcKey \in Keys :
         /\ last' = Call("contains", pcKey, NULL, SymTable_contains(oSymTable, heap, pcKey))
         /\ oList' = [oList EXCEPT !.ret = SymTableList_contains(oList.st, oList.hp, pcKey)]
    /\ UNCHANGED <<oSymTable, heap, aborted, pc, nFilled, given>>

BothGet ==
    /\ Both
    /\ \E pcKey \in Keys :
         /\ last' = Call("get", pcKey, NULL, SymTable_get(oSymTable, heap, pcKey))
         /\ oList' = [oList EXCEPT !.ret = SymTableList_get(oList.st, oList.hp, pcKey)]
    /\ UNCHANGED <<oSymTable, heap, aborted, pc, nFilled, given>>

BothRemove ==
    /\ Both
    /\ \E pcKey \in Keys :
         LET r == SymTable_remove(oSymTable, heap, pcKey)
             l == SymTableList_remove(oList.st, oList.hp, pcKey)
         IN  /\ oSymTable' = r.st
             /\ heap' = r.hp
             /\ last' = Call("remove", pcKey, NULL, r.ret)
             /\ oList' = [oList EXCEPT !.st = l.st, !.hp = l.hp, !.ret = l.ret]
    /\ UNCHANGED <<aborted, pc, nFilled, given>>

BothGetLength ==
    /\ Both
    /\ last' = Call("getLength", << >>, NULL, SymTable_getLength(oSymTable))
    /\ oList' = [oList EXCEPT !.ret = SymTableList_getLength(oList.st)]
    /\ UNCHANGED <<oSymTable, heap, aborted, pc, nFilled, given>>

NextBoth ==
    \/ BothPut
    \/ BothReplace
    \/ BothContains
    \/ BothGet
    \/ BothRemove
    \/ BothGetLength

SpecBoth == Init /\ [][NextBoth]_vars

----------------------------------------------------------------------------
(* A client that creates its table itself and may find no memory for it *)

InitNew ==
    /\ oSymTable = NoTable
    /\ heap = << >>
    /\ last = NoCall
    /\ aborted = FALSE
    /\ pc = "new"
    /\ nFilled = 0
    /\ given = << >>
    /\ oList = [st |-> SymTableList_new, hp |-> << >>, ret |-> NULL, aborted |-> FALSE]

\* oSymTable = SymTable_new(); the client stops when it gets NULL
New ==
    /\ pc = "new" /\ ~aborted
    /\ \E mallocOk \in BOOLEAN :
         \E callocOk \in (IF mallocOk THEN BOOLEAN ELSE {TRUE}) :
           LET r == SymTable_new_call(mallocOk, callocOk)
           IN  /\ oSymTable' = r.st
               /\ last' = [ Call("new", << >>, NULL, NULL)
                             EXCEPT !.allocated = r.allocated, !.freed = r.freed ]
               /\ pc' = IF r.st = NoTable THEN "done" ELSE "run"
    /\ UNCHANGED <<heap, aborted, nFilled, given, oList>>

NextNew ==
    \/ New
    \/ Put
    \/ PutNullKey
    \/ Replace
    \/ Contains
    \/ Get
    \/ Remove
    \/ GetLength
    \/ Map
    \/ NullTable

SpecNew == InitNew /\ [][NextNew]_vars

----------------------------------------------------------------------------
(* A client that frees its table at some point and stops *)

\* SymTable_free(oSymTable) with a non-null handle
FreeTable ==
    /\ pc = "run" /\ ~aborted
    /\ LET r == SymTable_free(oSymTable, heap)
       IN  /\ heap' = r.hp
           /\ last' = [Call("free", << >>, NULL, NULL) EXCEPT !.freed = r.freed]
    /\ oSymTable' = NoTable
    /\ pc' = "done"
    /\ UNCHANGED <<aborted, nFilled, given, oList>>

NextFree ==
    \/ Next
    \/ FreeTable

SpecFree == Init /\ [][NextFree]_vars

----------------------------------------------------------------------------
(* A client whose table has reached the last prime capacity and is filled
   above the load threshold, making one more put.  The table is LastTable;
   oSymTable and heap hold what sets a table apart from LastTable: the
   fields of the struct, the buckets that are not as in LastTable and the
   nodes that are not in LastTable or not as they are there. *)

\* the least count above the load threshold at the last prime capacity
NLast == (LoadNum * primes[PRIME_COUNT]) \div LoadDen + 1

\* number of keys this client may put
NLastKeys == 17

\* The a-th key of this client: four bytes 32 + d, d the base-32 digits of a.
\* Its hash is the hash of LastKey(0) plus a, so the NLast keys in the table
\* have each a bucket of their own at the last capacity.
LastKey(a) ==
    << 32 + (a \div 32768), 32 + ((a \div 1024) % 32), 32 + ((a \div 32) % 32), 32 + (a % 32) >>

\* the keys this client puts: a key that hashes to the bucket of LastKey(0),
\* and the next keys, which find empty buckets
LastKeys ==
    { LastKey(primes[PRIME_COUNT]) } \cup { LastKey(NLast + j) : j \in 0 .. (NLastKeys - 2) }

\* the bucket of LastKey(0) at the last capacity
LastFirst == symtablehash_hashFunction(LastKey(0), primes[PRIME_COUNT])

\* the table after puts of LastKey(0) .. LastKey(NLast - 1), the node of the
\* a-th key at address a + 1
LastTable ==
    LET bucketCount == primes[PRIME_COUNT]
    IN  [ st |-> [ currentPrimeIndex |-> PRIME_COUNT - 1,
                   bucketCount       |-> bucketCount,
                   nodeQuantity      |-> NLast,
                   buckets           |-> [ i \in 0 .. (bucketCount - 1) |->
                                             LET a == (i - LastFirst) % bucketCount
                                             IN  IF a < NLast THEN a + 1 ELSE NULL ] ],
          hp |-> [ p \in 1 .. NLast |->
                     [ pcKey      |-> LastKey(p - 1),
                       pvValue    |-> FillValue(p - 1),
                       psNextNode |-> NULL ] ] ]

\* What sets the table r = [st, hp] apart from LastTable.  hint names buckets
\* to look at first: when r differs from LastTable in no other bucket the
\* others need no comparison one by one.  A heap in which a node of LastTable
\* is missing or changed is kept whole.
LastDelta(r, hint) ==
    LET near    == [i \in hint |-> r.st.buckets[i]] @@ LastTable.st.buckets
        changed == IF r.st.buckets = near
                   THEN { i \in hint : r.st.buckets[i] # LastTable.st.buckets[i] }
                   ELSE { i \in DOMAIN r.st.buckets :
                            i \notin DOMAIN LastTable.st.buckets
                              \/ r.st.buckets[i] # LastTable.st.buckets[i] }
        added   == (DOMAIN r.hp) \ DOMAIN LastTable.hp
        kept    == [a \in added |-> r.hp[a]] @@ LastTable.hp
    IN  [ st |-> [r.st EXCEPT !.buckets = [i \in changed |-> r.st.buckets[i]]],
          hp |-> IF r.hp = kept THEN [a \in added |-> r.hp[a]] ELSE r.hp ]

InitLast ==
    /\ oSymTable = LastDelta(LastTable, {}).st
    /\ heap = LastDelta(LastTable, {}).hp
    /\ last = NoCall
    /\ aborted = FALSE
    /\ pc = "last"
    /\ nFilled = 0
    /\ given = << >>
    /\ oList = [st |-> SymTableList_new, hp |-> << >>, ret |-> NULL, aborted |-> FALSE]

\* SymTable_put(oSymTable, pcKey, pvValue) on LastTable, the key copy always
\* allocated; the client stops after this call
PutLast ==
    /\ pc = "last" /\ ~aborted
    /\ \E g \in {SymTable_put_grow(LastTable.st, LastTable.hp, TRUE)} :
         \E pcKey \in LastKeys, pvValue \in Values, nodeOk \in BOOLEAN :
           LET r == SymTable_put_insert(g, pcKey, pvValue, nodeOk, TRUE)
               d == LastDelta(r, {symtablehash_hashFunction(pcKey, r.st.bucketCount)})
           IN  /\ oSymTable' = d.st
               /\ heap' = d.hp
               /\ last' = Call("put", pcKey, pvValue, r.ret)
    /\ pc' = "done"
    /\ UNCHANGED <<aborted, nFilled, given, oList>>

NextLast == PutLast

SpecLast == InitLast /\ [][NextLast]_vars

----------------------------------------------------------------------------
(* A caller of symtablehash_hashFunction alone: one call, with any key of at
   most MaxLen bytes and any of the bucket counts *)

\* length of the longest key hashed
MaxLen == 7

\* the bytes of these keys: the least and the greatest char of 7 bits, and
\* '|': after the bytes 124, 127 the low half of hash is 4095, and the next
\* addition carries into the high half
HashBytes == { 1, 124, 127 }

HashKeys == UNION { [1 .. n -> HashBytes] : n \in 0 .. MaxLen }

InitHash ==
    /\ oSymTable = SymTable_new
    /\ heap = << >>
    /\ last = NoCall
    /\ aborted = FALSE
    /\ pc = "hash"
    /\ nFilled = 0
    /\ given = << >>
    /\ oList = [st |-> SymTableList_new, hp |-> << >>, ret |-> NULL, aborted |-> FALSE]

\* symtablehash_hashFunction(pcKey, bucketCount); value records bucketCount
Hash ==
    /\ pc = "hash" /\ ~aborted
    /\ \E pcKey \in HashKeys, i \in 1 .. PRIME_COUNT :
         last' = [ Call("hash", pcKey, primes[i],
                        symtablehash_hashFunction(pcKey, primes[i]))
                   EXCEPT !.hash = hashLoop(pcKey, 1, << 0, 0 >>) ]
    /\ pc' = "done"
    /\ UNCHANGED <<oSymTable, heap, aborted, nFilled, given, oList>>

NextHash == Hash

SpecHash == InitHash /\ [][NextHash]_vars

----------------------------------------------------------------------------
(* Observations used by the properties *)

\* the keys whose lookups are compared across a step: the client's free-phase
\* keys, the first bulk key and the bulk key that shares their bucket
ProbeKeys == Keys \cup { FillKey(0), FillKey(379) }

Has(k)  == SymTable_contains(oSymTable, heap, k)
Val(k)  == SymTable_get(oSymTable, heap, k)
Has2(k) == SymTable_contains(oSymTable', heap', k)
Val2(k) == SymTable_get(oSymTable', heap', k)

\* the step is a call op(key, ...) that returned
Returned(op) == IsCall /\ last'.op = op /\ ~aborted'

\* the positions <<bucket, place in chain>> that hold a node
ChainOf(st, hp, i) == Chain(hp, st.buckets[i], Fuel(hp))
Slots(st, hp) ==
    UNION { LET c == ChainOf(st, hp, i)
            IN  { <<i, j, hp[c[j]].pcKey>> : j \in 1 .. Len(c) } : i \in 0 .. (st.bucketCount - 1) }
KeysUnique(st, hp) ==
    LET slots == Slots(st, hp)
    IN  Cardinality({ s[3] : s \in slots }) = Cardinality(slots)

\* the table grew at least once
Grown == oSymTable.currentPrimeIndex > 0

----------------------------------------------------------------------------
(* C1: after any sequence of puts of pairwise distinct keys on a new table,
   with no allocation failure, every put has returned 1, the length is the
   number of keys put, and every key put is contained and bound to the value
   given at its put.  (Checked under SpecDistinctPuts.) *)
C1_DistinctPuts ==
    /\ (last.op = "put" => last.ret = 1)
    /\ SymTable_getLength(oSymTable) = Cardinality(DOMAIN given)
    /\ \A k \in DOMAIN given : Has(k) = 1 /\ Val(k) = given[k]

\* all bulk keys and all free-phase keys have been put, across a growth
C1_Witness ==
    /\ last.op = "put"
    /\ Cardinality(DOMAIN given) = NFill + Cardinality(Keys)
    /\ Grown

(* C2: a put of a key that is present returns 0 and the value got for that
   key is the one bound before the call. *)
C2_DuplicatePutKeepsValue ==
    [][ (Returned("put") /\ Has(last'.key) = 1)
          => (last'.ret = 0 /\ Has2(last'.key) = 1 /\ Val2(last'.key) = Val(last'.key)) ]_vars

\* a put of a present key with a value other than the bound one has returned 0
C2_Witness ==
    /\ last.op = "put" /\ ~aborted
    /\ last.ret = 0
    /\ Has(last.key) = 1
    /\ Val(last.key) # last.value

(* C3: a put of a key that is present returns 0 and changes nothing of the
   table: count, capacity, prime index and every chain are as before. *)
C3_DuplicatePutNoMutation ==
    [][ (Returned("put") /\ Has(last'.key) = 1)
          => (last'.ret = 0 /\ oSymTable' = oSymTable /\ heap' = heap) ]_vars

(* C4: a replace of a present key returns the value bound before and binds
   the new value; the table structure, the count, the key set and every
   other binding are unchanged. *)
C4_ReplacePresent ==
    [][ (Returned("replace") /\ Has(last'.key) = 1)
          => /\ last'.ret = Val(last'.key)
             /\ Val2(last'.key) = last'.value
             /\ oSymTable' = oSymTable
             /\ DOMAIN heap' = DOMAIN heap
             /\ \A a \in DOMAIN heap :
                   IF heap[a].pcKey = last'.key
                   THEN heap'[a] = [heap[a] EXCEPT !.pvValue = last'.value]
                   ELSE heap'[a] = heap[a]
             /\ \A k \in ProbeKeys : Has2(k) = Has(k)
             /\ \A k \in ProbeKeys \ {last'.key} : Val2(k) = Val(k) ]_vars

\* a replace of a present key by a value other than the bound one has returned
C4_Witness ==
    /\ last.op = "replace" /\ ~aborted
    /\ Has(last.key) = 1
    /\ last.ret # last.value
    /\ Val(last.key) = last.value

(* C5: a replace of an absent key returns NULL and leaves the table as it
   was: no binding appears, the length is the same, the key is not contained. *)
C5_ReplaceAbsent ==
    [][ (Returned("replace") /\ Has(last'.key) = 0)
          => /\ last'.ret = NULL
             /\ oSymTable' = oSymTable
             /\ heap' = heap
             /\ SymTable_getLength(oSymTable') = SymTable_getLength(oSymTable)
             /\ Has2(last'.key) = 0 ]_vars

\* a replace of an absent key has returned
C5_Witness ==
    /\ last.op = "replace" /\ ~aborted
    /\ Has(last.key) = 0
    /\ last.ret = NULL

(* C6: a remove of a present key returns its value; afterwards the key is
   not contained, get returns NULL and the length is one less. *)
C6_RemovePresent ==
    [][ (Returned("remove") /\ Has(last'.key) = 1)
          => /\ last'.ret = Val(last'.key)
             /\ Has2(last'.key) = 0
             /\ Val2(last'.key) = NULL
             /\ SymTable_getLength(oSymTable') = SymTable_getLength(oSymTable) - 1 ]_vars

\* a remove of a key bound to a non-null value has returned that value
C6_Witness ==
    /\ last.op = "remove" /\ ~aborted
    /\ last.ret # NULL
    /\ Has(last.key) = 0

(* C7: a remove of an absent key returns NULL and leaves the table as it
   was: count and chains unchanged, also when the key's bucket is not empty. *)
C7_RemoveAbsent ==
    [][ (Returned("remove") /\ Has(last'.key) = 0)
          => /\ last'.ret = NULL
             /\ oSymTable' = oSymTable
             /\ heap' = heap
             /\ oSymTable'.nodeQuantity >= Cardinality(DOMAIN heap') ]_vars

\* a remove of an absent key whose bucket holds other keys has returned, and
\* that key was not the one removed by the call
C7_Witness ==
    /\ last.op = "remove" /\ ~aborted
    /\ last.ret = NULL
    /\ Has(last.key) = 0
    /\ oSymTable.buckets[symtablehash_hashFunction(last.key, oSymTable.bucketCount)] # NULL
    /\ oSymTable.nodeQuantity = Cardinality(DOMAIN heap)

(* C8: a step in which the table grows loses nothing: every key contained
   before is contained after with the same value, no key is stored twice,
   and the count changes by the insertion of the put only.  (Checked under
   SpecGrow.) *)
C8_RehashLossless ==
    [][ (IsCall /\ oSymTable'.bucketCount # oSymTable.bucketCount)
          => /\ \A k \in AllKeys : Has(k) = 1 => (Has2(k) = 1 /\ Val2(k) = Val(k))
             /\ KeysUnique(oSymTable', heap')
             /\ oSymTable'.nodeQuantity = oSymTable.nodeQuantity + last'.ret ]_vars

\* the table has grown and holds chains of more than one node
C8_Witness ==
    /\ Grown
    /\ \E a \in DOMAIN heap : heap[a].psNextNode # NULL
    /\ oSymTable.nodeQuantity > NFill

(* C9: a map that returned has invoked the callback once per binding: as
   many calls as the length, no key twice, the keys visited are the keys
   contained, each with its current value; none on an empty table. *)
C9_MapVisitsAll ==
    (last.op = "map" /\ ~aborted)
      => LET calls == last.visited
             seen  == { calls[i][1] : i \in 1 .. Len(calls) }
         IN  /\ Len(calls) = SymTable_getLength(oSymTable)
             /\ Cardinality(seen) = Len(calls)
             /\ seen = { k \in AllKeys : Has(k) = 1 }
             /\ \A i \in 1 .. Len(calls) : calls[i][2] = Val(calls[i][1])
             /\ (SymTable_getLength(oSymTable) = 0 => calls = << >>)

\* a map over a grown table with a chain of more than one node has returned
C9_Witness ==
    /\ last.op = "map" /\ ~aborted
    /\ Len(last.visited) > NFill
    /\ \E a \in DOMAIN heap : heap[a].psNextNode # NULL

(* C10: no two nodes of the table, in one chain or in two, hold equal keys. *)
C10_KeysUnique == KeysUnique(oSymTable, heap)

\* a key was put again while present, after a remove and a growth
C10_Witness ==
    /\ last.op = "put" /\ last.ret = 0 /\ ~aborted
    /\ Grown
    /\ \E a \in DOMAIN heap : heap[a].psNextNode # NULL

(* C11: in every state between operations the stored count, the result of
   SymTable_getLength, is the number of nodes reached by walking all chains. *)
C11_CountIsNodes ==
    SymTable_getLength(oSymTable) = Cardinality(Slots(oSymTable, heap))

\* after a growth, a put of an absent key has failed on an allocation while
\* another key of the client is removed
C11_Witness ==
    /\ last.op = "put" /\ last.ret = 0 /\ ~aborted
    /\ Has(last.key) = 0
    /\ Grown
    /\ SymTable_getLength(oSymTable) = NFill

\* the bucket counts the table may take
PrimeSet == { primes[i] : i \in 1 .. PRIME_COUNT }

(* C12: the capacity is one of the ten primes in every state and no step
   makes it smaller, also when every binding is removed after a growth.
   (Checked under SpecDrain.) *)
C12_CapacityPrimeMonotone ==
    [][ /\ oSymTable.bucketCount \in PrimeSet
        /\ oSymTable'.bucketCount \in PrimeSet
        /\ oSymTable'.bucketCount >= oSymTable.bucketCount ]_vars

\* the table has grown and every binding has been removed since
C12_Witness ==
    /\ Grown
    /\ oSymTable.bucketCount = primes[2]
    /\ SymTable_getLength(oSymTable) = 0
    /\ heap = << >>
    /\ pc = "run"

(* C13: after NInsert = 400 distinct keys are inserted into a new table the
   capacity is the second prime, 1021, the length is NInsert, and every key
   is contained and got with its value.  (Checked under SpecInsert.) *)
C13_Insert400 ==
    (pc = "done")
      => /\ oSymTable.bucketCount = primes[2]
         /\ oSymTable.currentPrimeIndex = 1
         /\ SymTable_getLength(oSymTable) = NInsert
         /\ \A i \in 0 .. (NInsert - 1) :
               Has(FillKey(i)) = 1 /\ Val(FillKey(i)) = FillValue(i)

\* all NInsert keys are in and the client has stopped
C13_Witness ==
    /\ pc = "done"
    /\ nFilled = NInsert
    /\ Cardinality(DOMAIN heap) = NInsert

\* the addresses some bucket or some node refers to
Referenced ==
    { oSymTable.buckets[i] : i \in 0 .. (oSymTable.bucketCount - 1) }
      \cup { heap[a].psNextNode : a \in DOMAIN heap }

(* C14: a put of an absent key that returns 0 (the node or the key copy could
   not be allocated) leaves no partial binding: the key is not contained,
   the count is unchanged, no node is added to or left in the heap, and
   every chain refers to allocated nodes only. *)
C14_FailedPutNoBinding ==
    [][ (Returned("put") /\ Has(last'.key) = 0 /\ last'.ret = 0)
          => /\ Has2(last'.key) = 0
             /\ Val2(last'.key) = NULL
             /\ SymTable_getLength(oSymTable') = SymTable_getLength(oSymTable)
             /\ DOMAIN heap' = DOMAIN heap
             /\ \A a \in DOMAIN heap' : heap'[a].pcKey = heap[a].pcKey
                                          /\ heap'[a].pvValue = heap[a].pvValue
             /\ Referenced' \subseteq (DOMAIN heap' \cup {NULL}) ]_vars

\* a put of an absent key has returned 0 on a table that holds other keys
C14_Witness ==
    /\ last.op = "put" /\ ~aborted
    /\ last.ret = 0
    /\ Has(last.key) = 0
    /\ \E k \in Keys : Has(k) = 1
    /\ pc = "run"

\* the key is bound, and to a null value
BoundToNull(k) ==
    /\ Has(k) = 1
    /\ \E a \in DOMAIN heap : heap[a].pcKey = k /\ heap[a].pvValue = NULL

(* C15: the result of SymTable_get for a key bound to a null value differs
   from its result for a key that is not in the table. *)
C15_AbsentDiffersFromNull ==
    \A k1 \in Keys, k2 \in Keys :
        (BoundToNull(k1) /\ Has(k2) = 0) => Val(k1) # Val(k2)

(* C16: a put of an absent key with a null value, the allocations
   succeeding, is not stopped by an assertion and returns 1; the key is then
   contained, bound to the null value, and the count is one more.
   (Checked under SpecDistinctPuts.) *)
C16_PutAcceptsNull ==
    [][ (IsCall /\ last'.op = "put" /\ last'.value = NULL /\ Has(last'.key) = 0)
          => /\ ~aborted'
             /\ last'.ret = 1
             /\ Has2(last'.key) = 1
             /\ Val2(last'.key) = NULL
             /\ SymTable_getLength(oSymTable') = SymTable_getLength(oSymTable) + 1 ]_vars

\* a put with a null value has returned 1 and the key is contained
C16_Witness ==
    /\ last.op = "put" /\ ~aborted
    /\ last.value = NULL
    /\ last.ret = 1
    /\ BoundToNull(last.key)

(* C17: a replace of a present key with a non-null key pointer and any
   value, a null one included, does not abort: it returns the value bound
   before and binds the new value. *)
C17_ReplaceAnyValue ==
    [][ (IsCall /\ last'.op = "replace" /\ last'.key # NullKey /\ Has(last'.key) = 1)
          => /\ ~aborted'
             /\ last'.ret = Val(last'.key)
             /\ Val2(last'.key) = last'.value ]_vars

(* C18: a map on a table, whatever context pvExtra the caller supplies,
   calls the callback once per binding with that context as third argument
   and changes nothing of the table. *)
C18_MapPassesContext ==
    [][ (IsCall /\ last'.op = "map" /\ ~last'.nullTable)
          => /\ ~aborted'
             /\ Len(last'.visited) = SymTable_getLength(oSymTable)
             /\ \A i \in 1 .. Len(last'.visited) : last'.visited[i][3] = last'.value
             /\ oSymTable' = oSymTable
             /\ heap' = heap ]_vars

(* C20: a call of put, replace, contains, get or remove with a null key, and
   a call of any function with a null table handle, stops at an assertion
   and leaves the table as it was. *)
C20_PreconditionAborts ==
    [][ (IsCall /\ (last'.key = NullKey \/ last'.nullTable))
          => /\ aborted'
             /\ ~aborted
             /\ last'.ret = NULL
             /\ oSymTable' = oSymTable
             /\ heap' = heap ]_vars

\* a remove with a null key has aborted on a grown table
C20_Witness ==
    /\ aborted
    /\ last.op = "remove" /\ last.key = NullKey
    /\ Grown
    /\ \E k \in Keys : Has(k) = 1

(* C19: given the same calls of put, replace, get, contains, remove and
   getLength with non-null keys, the list table and the hash table return
   the same result at every call, both return at all, and both hold the
   same bindings.  (Checked under SpecBoth.) *)
C19_ListAsHash ==
    /\ oList.aborted = aborted
    /\ oList.ret = last.ret
    /\ SymTableList_getLength(oList.st) = SymTable_getLength(oSymTable)
    /\ \A k \in Keys :
         /\ SymTableList_contains(oList.st, oList.hp, k) = Has(k)
         /\ SymTableList_get(oList.st, oList.hp, k) = Val(k)

\* the call returned is the table's construction
Created == last.op = "new" /\ pc # "new"

(* C21: SymTable_new returns a table with no bindings (length 0, every
   bucket empty, no key contained), at the first prime capacity 509 and
   prime index 0; when either allocation fails no table is returned and
   every block the call allocated has been freed again, once.  (Checked
   under SpecNew.) *)
C21_NewEmptyOrNothing ==
    Created =>
      IF pc = "done"
      THEN /\ oSymTable = NoTable
           /\ heap = << >>
           /\ Len(last.allocated) <= 1
           /\ last.freed = last.allocated
      ELSE /\ oSymTable # NoTable
           /\ last.allocated = << TableBlock, BucketsBlock >>
           /\ last.freed = << >>
           /\ SymTable_getLength(oSymTable) = 0
           /\ oSymTable.bucketCount = primes[1]
           /\ oSymTable.bucketCount = 509
           /\ oSymTable.currentPrimeIndex = 0
           /\ DOMAIN oSymTable.buckets = 0 .. (oSymTable.bucketCount - 1)
           /\ \A i \in DOMAIN oSymTable.buckets : oSymTable.buckets[i] = NULL
           /\ heap = << >>
           /\ \A k \in AllKeys : Has(k) = 0

\* the struct was allocated, the bucket array was not: nothing is returned
C21_Witness ==
    /\ Created
    /\ pc = "done"
    /\ last.allocated = << TableBlock >>

(* C22: SymTable_free called with a table in any reachable state frees
   every node and the key copy of every node, the bucket array and the
   struct SymTable, each exactly once, and frees no value a node refers to;
   no node is left.  (Checked under SpecFree.) *)
C22_FreeReleasesAll ==
    [][ (pc = "run" /\ last'.op = "free" /\ ~aborted')
          => LET freed  == last'.freed
                 blocks == { freed[j] : j \in 1 .. Len(freed) }
             IN  /\ Cardinality(blocks) = Len(freed)
                 /\ blocks = { KeyBlock(a) : a \in DOMAIN heap }
                                \cup { NodeBlock(a) : a \in DOMAIN heap }
                                \cup { BucketsBlock, TableBlock }
                 /\ \A a \in DOMAIN heap : ValueBlock(heap[a].pvValue) \notin blocks
                 /\ heap' = << >>
                 /\ oSymTable' = NoTable ]_vars

\* a table holding every key of the client, two of them in one chain, is freed
C22_Witness ==
    /\ last.op = "free" /\ ~aborted
    /\ pc = "done"
    /\ Len(last.freed) = 2 * (NFill + Cardinality(Keys)) + 2

(* C23: a put of an absent key whose allocations succeed grows the table to
   the next prime exactly when (count + 1) / capacity, taken from the count
   and the capacity at entry, exceeds 0.75 and a larger prime remains; the
   put that makes the count 382 at capacity 509 grows the table to 1021.
   (Checked under SpecDistinctPuts.) *)
C23_GrowBeforeInsert ==
    [][ (Returned("put") /\ Has(last'.key) = 0)
          => LET due == /\ LoadDen * (oSymTable.nodeQuantity + 1) > LoadNum * oSymTable.bucketCount
                        /\ oSymTable.currentPrimeIndex + 1 < PRIME_COUNT
             IN  /\ (oSymTable'.bucketCount # oSymTable.bucketCount) <=> due
                 /\ due => /\ oSymTable'.currentPrimeIndex = oSymTable.currentPrimeIndex + 1
                            /\ oSymTable'.bucketCount = primes[oSymTable'.currentPrimeIndex + 1] ]_vars

\* every node of hp is found by the walk of the one bucket its key hashes to
\* under st.bucketCount, and the chains hold as many places as there are nodes
InOwnBucket(st, hp) ==
    /\ \A a \in DOMAIN hp :
          FindNode(hp, st.buckets[symtablehash_hashFunction(hp[a].pcKey, st.bucketCount)],
                   hp[a].pcKey, Fuel(hp)) = a
    /\ \A s \in Slots(st, hp) : s[1] = symtablehash_hashFunction(s[3], st.bucketCount)
    /\ Cardinality(Slots(st, hp)) = Cardinality(DOMAIN hp)

(* C24: between operations every node is in the chain of bucket
   hash(key) mod capacity for the current capacity and in no other chain, so
   the walk of that one bucket finds every stored key; the same is true of
   the table a resize leaves, before the put that called it inserts. *)
C24_InOwnBucket ==
    /\ InOwnBucket(oSymTable, heap)
    /\ (pc = "run" /\ LoadExceeded(oSymTable))
         => LET g == SymTable_put_grow(oSymTable, heap, TRUE)
            IN  /\ g.st.bucketCount = primes[oSymTable.currentPrimeIndex + 2]
                /\ InOwnBucket(g.st, g.hp)

\* the table has grown, and a key of the client is found behind the head of
\* its chain
C24_Witness ==
    /\ Grown /\ ~aborted
    /\ \E k \in Keys :
         /\ Has(k) = 1
         /\ heap[oSymTable.buckets[symtablehash_hashFunction(k, oSymTable.bucketCount)]].pcKey # k

(* C25: in every state where a put would attempt growth, a put whose calloc
   of the new bucket array fails leaves capacity, prime index, chains and
   count as they were at the growth attempt, and then, its node and key
   allocations succeeding, inserts an absent key at the head of its bucket at
   the old capacity and returns 1. *)
C25_CallocFailureKeepsTable ==
    (pc = "run" /\ ~aborted /\ LoadExceeded(oSymTable)
       /\ oSymTable.currentPrimeIndex + 1 < PRIME_COUNT)
      => /\ SymTable_put_grow(oSymTable, heap, FALSE) = [st |-> oSymTable, hp |-> heap]
         /\ \A k \in Keys, v \in Values :
               Has(k) = 0
                 => LET r     == SymTable_put(oSymTable, heap, k, v, FALSE, TRUE, TRUE)
                        index == symtablehash_hashFunction(k, oSymTable.bucketCount)
                        new   == Malloc(heap)
                    IN  /\ r.ret = 1
                        /\ r.st = [oSymTable EXCEPT !.buckets[index] = new,
                                                    !.nodeQuantity = @ + 1]
                        /\ r.hp = (new :> [ pcKey      |-> k,
                                            pvValue    |-> v,
                                            psNextNode |-> oSymTable.buckets[index] ]) @@ heap
                        /\ SymTable_contains(r.st, r.hp, k) = 1
                        /\ SymTable_get(r.st, r.hp, k) = v

\* two puts in a row found no memory for the new bucket array and inserted
\* at capacity 509
C25_Witness ==
    /\ last.op = "put" /\ last.ret = 1 /\ ~aborted
    /\ ~Grown
    /\ SymTable_getLength(oSymTable) = NFill + Cardinality(Keys)
    /\ LoadExceeded(oSymTable)

(* C26: on a table at the last prime capacity, 262147 at prime index 9, with
   the load above 0.75, the growth attempt of a put changes nothing, whether
   calloc would succeed or not, and the put of an absent key whose
   allocations succeed returns 1.  After the put, prime index and capacity
   are the same, the prime index is below PRIME_COUNT, no existing node and
   no other bucket has changed; when it returned 1 the only differences are
   the new node, at the head of its own bucket, and the count.  (Checked
   under SpecLast.) *)
C26_LastPrimeNoGrowth ==
    /\ oSymTable.currentPrimeIndex = PRIME_COUNT - 1
    /\ oSymTable.currentPrimeIndex < PRIME_COUNT
    /\ oSymTable.bucketCount = primes[PRIME_COUNT]
    /\ oSymTable.bucketCount = 262147
    /\ (pc = "last")
         => /\ LoadExceeded(oSymTable)
            /\ oSymTable.buckets = << >> /\ heap = << >>
            /\ \A callocOk \in BOOLEAN :
                  /\ SymTable_put_grow(LastTable.st, LastTable.hp, callocOk) = LastTable
                  /\ \A k \in LastKeys :
                        /\ SymTable_contains(LastTable.st, LastTable.hp, k) = 0
                        /\ SymTable_put(LastTable.st, LastTable.hp, k, MaxValue,
                                        callocOk, TRUE, TRUE).ret = 1
    /\ (pc = "done" /\ last.ret = 0)
         => /\ oSymTable.nodeQuantity = NLast
            /\ oSymTable.buckets = << >> /\ heap = << >>
    /\ (pc = "done" /\ last.ret = 1)
         => LET index == symtablehash_hashFunction(last.key, oSymTable.bucketCount)
                new   == Malloc(LastTable.hp)
            IN  /\ oSymTable.nodeQuantity = NLast + 1
                /\ oSymTable.buckets = (index :> new)
                /\ heap = (new :> [ pcKey      |-> last.key,
                                     pvValue    |-> last.value,
                                     psNextNode |-> LastTable.st.buckets[index] ])

\* the put of the key that shares the bucket of LastKey(0) has returned 1:
\* the new node is linked before the node of LastKey(0)
C26_Witness ==
    /\ pc = "done"
    /\ last.op = "put" /\ last.ret = 1 /\ ~aborted
    /\ last.key = LastKey(primes[PRIME_COUNT])
    /\ oSymTable.currentPrimeIndex = PRIME_COUNT - 1
    /\ \E a \in DOMAIN heap :
         /\ heap[a].psNextNode # NULL
         /\ LastTable.hp[heap[a].psNextNode].pcKey = LastKey(0)

\* The fold acc := (acc * 32 + byte) mod 2^32 over the bytes from position i,
\* in exact arithmetic on the four base-256 digits d of acc, least first.
RECURSIVE FoldDigits(_, _, _)
FoldDigits(key, i, d) ==
    IF i > Len(key) THEN d
    ELSE LET t1 == d[1] * (2 ^ HASH_SHIFT_AMOUNT) + key[i]
             t2 == d[2] * (2 ^ HASH_SHIFT_AMOUNT) + (t1 \div 256)
             t3 == d[3] * (2 ^ HASH_SHIFT_AMOUNT) + (t2 \div 256)
             t4 == d[4] * (2 ^ HASH_SHIFT_AMOUNT) + (t3 \div 256)
         IN  FoldDigits(key, i + 1, << t1 % 256, t2 % 256, t3 % 256, t4 % 256 >>)

\* the number with base-256 digits d, least first, modulo m < 2^19
DigitsMod(d, m) == ((((((d[4] % m) * 256 + d[3]) % m) * 256 + d[2]) % m) * 256 + d[1]) % m

(* C27: the hash of a key is the left fold of acc := ((acc << 5) + byte)
   mod 2^32 over its bytes from 0: the empty string hashes to 0, a key of
   seven bytes or more wraps, the index returned is that hash modulo the
   bucket count and lies in 0 .. bucketCount - 1.  (Checked under SpecHash.) *)
C27_HashIsFold ==
    (last.op = "hash")
      => LET d == FoldDigits(last.key, 1, << 0, 0, 0, 0 >>)
         IN  /\ last.hash = << d[4] * 256 + d[3], d[2] * 256 + d[1] >>
             /\ (last.key = << >> => last.hash = << 0, 0 >> /\ last.ret = 0)
             /\ last.ret = DigitsMod(d, last.value)
             /\ last.ret \in 0 .. (last.value - 1)

\* a key of MaxLen bytes whose fold exceeds 2^32 has been hashed at the last
\* bucket count
C27_Witness ==
    /\ last.op = "hash"
    /\ Len(last.key) >= 7
    /\ last.key[1] = 127
    /\ last.value = primes[PRIME_COUNT]
    /\ last.ret # 0

\* the bindings <<key, value>> of a chain in walk order
Bindings(hp, c) == [j \in 1 .. Len(c) |-> << hp[c[j]].pcKey, hp[c[j]].pvValue >>]

\* the sequence c without the element p
Without(c, p) == SelectSeq(c, LAMBDA a : a # p)

(* C28: a remove of a present key unlinks exactly the node of that key,
   whether it is the head, in the middle or at the end of its chain: the
   chain afterwards is the chain before without that node, in the same
   order and with the same keys and values, every other bucket has the
   chain it had, and no other node is freed or written apart from the link
   of the removed node's predecessor. *)
C28_RemoveUnlinksOneNode ==
    [][ (Returned("remove") /\ Has(last'.key) = 1)
          => LET index == symtablehash_hashFunction(last'.key, oSymTable.bucketCount)
                 c == ChainOf(oSymTable, heap, index)
                 p == FindNode(heap, oSymTable.buckets[index], last'.key, Fuel(heap))
                 c2 == ChainOf(oSymTable', heap', index)
             IN  /\ p # NULL
                 /\ DOMAIN heap' = (DOMAIN heap) \ {p}
                 /\ c2 = Without(c, p)
                 /\ Len(c2) = Len(c) - 1
                 /\ Bindings(heap', c2) = Bindings(heap, c2)
                 /\ oSymTable'.bucketCount = oSymTable.bucketCount
                 /\ \A i \in 0 .. (oSymTable.bucketCount - 1) :
                      i # index
                        => /\ oSymTable'.buckets[i] = oSymTable.buckets[i]
                           /\ ChainOf(oSymTable', heap', i) = ChainOf(oSymTable, heap, i)
                 /\ \A a \in DOMAIN heap' :
                      /\ heap'[a].pcKey = heap[a].pcKey
                      /\ heap'[a].pvValue = heap[a].pvValue
                      /\ (heap[a].psNextNode # p => heap'[a] = heap[a]) ]_vars

\* the key "ob" has been removed from the middle of its chain: "laaa" is
\* still the head of the bucket and the bulk key "379" follows it
C28_Witness ==
    /\ last.op = "remove" /\ ~aborted
    /\ last.key = << 111, 98 >>
    /\ last.ret # NULL
    /\ oSymTable.bucketCount = primes[1]
    /\ LET c == ChainOf(oSymTable, heap,
                        symtablehash_hashFunction(last.key, oSymTable.bucketCount))
       IN  /\ Len(c) = 2
           /\ heap[c[1]].pcKey = << 108, 97, 97, 97 >>
           /\ heap[c[2]].pcKey = FillKey(379)

\* The walk psCurrentNode = psCurrentNode->psNextNode from p comes to NULL:
\* it meets no node twice (seen: the nodes met so far) and no freed node.
RECURSIVE WalkEnds(_, _, _)
WalkEnds(hp, p, seen) ==
    IF p = NULL THEN TRUE
    ELSE IF p \in seen \/ p \notin DOMAIN hp THEN FALSE
    ELSE WalkEnds(hp, hp[p].psNextNode, seen \cup {p})

\* every bucket chain of the table is finite and acyclic
Acyclic(st, hp) ==
    /\ DOMAIN st.buckets = 0 .. (st.bucketCount - 1)
    /\ \A i \in 0 .. (st.bucketCount - 1) : WalkEnds(hp, st.buckets[i], {})

(* C29: in every reachable state every bucket chain is finite and acyclic:
   the walk from each bucket head comes to NULL without meeting a node twice
   or a freed node, so every chain walk ends within as many steps as there
   are nodes.  The same holds of the table that the resize hands back to put
   right after it has relinked the nodes, and the rehash loop has then
   visited every node. *)
C29_ChainsAcyclic ==
    /\ Acyclic(oSymTable, heap)
    /\ (LoadExceeded(oSymTable) /\ oSymTable.currentPrimeIndex + 1 < PRIME_COUNT)
         => LET r == symtablehash_resizeHashTable(oSymTable, heap, TRUE)
            IN  /\ Acyclic(r.st, r.hp)
                /\ r.st.bucketCount = primes[oSymTable.currentPrimeIndex + 2]
                /\ DOMAIN r.hp = DOMAIN heap

\* the table has grown and a put has inserted the second node of a chain at
\* the larger capacity, after the walk of that chain
C29_Witness ==
    /\ Grown
    /\ last.op = "put" /\ last.ret = 1 /\ ~aborted
    /\ oSymTable.nodeQuantity = NFill + 2
    /\ Len(ChainOf(oSymTable, heap,
                   symtablehash_hashFunction(last.key, oSymTable.bucketCount))) = 2

\* SymTable_put attempts growth in this state, and a larger prime remains
GrowthDue == pc = "run" /\ ~aborted /\ LoadExceeded(oSymTable)
                /\ oSymTable.currentPrimeIndex + 1 < PRIME_COUNT

(* C30: no put remembers an abandoned growth attempt.  In every state in
   which the load is above 0.75 and a larger prime remains, whatever happened
   to earlier attempts, the growth step of a put moves the table to the next
   prime if the allocation of the bucket array succeeds and leaves it as it
   is if not.  Every put that returns has moved the prime index by at most
   one position, with the capacity that belongs to it, and only if the load
   at entry was above 0.75. *)
C30_GrowthRetried ==
    /\ [] (GrowthDue
            => LET g == SymTable_put_grow(oSymTable, heap, TRUE)
                   f == SymTable_put_grow(oSymTable, heap, FALSE)
               IN  /\ g.st.currentPrimeIndex = oSymTable.currentPrimeIndex + 1
                   /\ g.st.bucketCount = primes[oSymTable.currentPrimeIndex + 2]
                   /\ f = [st |-> oSymTable, hp |-> heap])
    /\ [][ Returned("put")
             => LET idx == oSymTable.currentPrimeIndex
                    idx2 == oSymTable'.currentPrimeIndex
                IN  /\ idx2 \in { idx, idx + 1 }
                    /\ oSymTable'.bucketCount = primes[idx2 + 1]
                    /\ (~LoadExceeded(oSymTable)) => idx2 = idx ]_vars

\* a put has been made on a table left above the threshold by an abandoned
\* growth attempt (capacity 509 with every key of the client bound); its own
\* attempt was abandoned as well, and the load is still above 0.75
C30_Witness ==
    /\ last.op = "put" /\ last.ret = 0 /\ ~aborted
    /\ Has(last.key) = 1
    /\ oSymTable.currentPrimeIndex = 0
    /\ oSymTable.nodeQuantity = NFill + Cardinality(Keys)
    /\ LoadExceeded(oSymTable)

====
